---- MODULE Spec2Model ----
(***************************************************************************)
(* Smart Medical Lab-Report Analyser: the upload pipeline                  *)
(* (AgentService.processComplete, uploadReport, determineRiskLevel,        *)
(* updateUserVault) and the chat engine (startChat, sendMessage,           *)
(* chatRateLimit), as state machines over the MongoDB collections.         *)
(***************************************************************************)
EXTENDS Integers, Sequences, FiniteSets, TLC

(* ---------------------------------------------------------------------- *)
(* Bounds of the model                                                     *)
(* ---------------------------------------------------------------------- *)
MaxTests == 20

(* ---------------------------------------------------------------------- *)
(* Values                                                                  *)
(* ---------------------------------------------------------------------- *)
Users == {"u1", "u2"}
Runs == {1, 2}
NoDoc == [none |-> TRUE]

(* ---------------------------------------------------------------------- *)
(* IEEE 754 binary64 arithmetic, as far as determineRiskLevel uses it:     *)
(* a positive number is 0.b1 b2 ... b53 * 2^exp with b1 = 1, rounded to    *)
(* nearest, ties to even.                                                  *)
(* ---------------------------------------------------------------------- *)
MantissaBits == 53

RECURSIVE NatBits(_)
NatBits(n) == IF n = 0 THEN <<>> ELSE Append(NatBits(n \div 2), n % 2)

Zeros(n) == [i \in 1..n |-> 0]

AnyOne(bits) == \E i \in DOMAIN bits : bits[i] = 1

\* bits + 1, wrapping to all zeros
IncBits(bits) ==
    LET zeroAt == {i \in DOMAIN bits : bits[i] = 0}
        k == IF zeroAt = {} THEN 0 ELSE CHOOSE i \in zeroAt : \A j \in zeroAt : j <= i
    IN [i \in DOMAIN bits |-> IF i < k THEN bits[i] ELSE IF i = k THEN 1 ELSE 0]

FZero == [zero |-> TRUE, bits |-> <<>>, exp |-> 0]

\* round a mantissa of MantissaBits bits; tail is "lt", "eq" or "gt" half a unit in the last place
FRound(bits, tail, exp) ==
    LET up == tail = "gt" \/ (tail = "eq" /\ bits[MantissaBits] = 1)
        inc == IncBits(bits)
    IN IF ~up THEN [zero |-> FALSE, bits |-> bits, exp |-> exp]
       ELSE IF ~AnyOne(inc) THEN [zero |-> FALSE, bits |-> <<1>> \o Zeros(MantissaBits - 1), exp |-> exp + 1]
       ELSE [zero |-> FALSE, bits |-> inc, exp |-> exp]

FFromNat(n) ==
    IF n = 0 THEN FZero
    ELSE LET b == NatBits(n) IN
         [zero |-> FALSE, bits |-> b \o Zeros(MantissaBits - Len(b)), exp |-> Len(b)]

\* long division: n quotient bits of r / d (r < 2d) and the remainder left after
\* them, computed half by half
RECURSIVE DivBits(_, _, _)
DivBits(r, d, n) ==
    IF n = 0 THEN [bits |-> <<>>, rem |-> r]
    ELSE IF n = 1 THEN LET bit == IF r >= d THEN 1 ELSE 0
                       IN [bits |-> <<bit>>, rem |-> 2 * (r - bit * d)]
    ELSE LET h == n \div 2
             hi == DivBits(r, d, h)
             lo == DivBits(hi.rem, d, n - h)
         IN [bits |-> hi.bits \o lo.bits, rem |-> lo.rem]

\* scale r / d into [1, 2): r * 2^k / d
RECURSIVE ScaleUp(_, _, _)
ScaleUp(r, d, e) == IF r >= d THEN [r |-> r, d |-> d, e |-> e] ELSE ScaleUp(2 * r, d, e - 1)

RECURSIVE ScaleDown(_, _, _)
ScaleDown(r, d, e) == IF r < 2 * d THEN [r |-> r, d |-> d, e |-> e] ELSE ScaleDown(r, 2 * d, e + 1)

\* a / b for two integers that are exact doubles, b > 0
FDivNat(a, b) ==
    IF a = 0 THEN FZero
    ELSE LET s0 == ScaleUp(a, b, 0)
             s == ScaleDown(s0.r, s0.d, s0.e)
             q == DivBits(s.r, s.d, MantissaBits)
             tail == IF q.rem > s.d THEN "gt" ELSE IF q.rem = s.d THEN "eq" ELSE "lt"
         IN FRound(q.bits, tail, s.e + 1)

Reverse(s) == [i \in 1..Len(s) |-> s[Len(s) + 1 - i]]

\* long multiplication, least significant bit first: the low Len(bits) bits of
\* bits * c + carry and the carry out of them, computed half by half
RECURSIVE MulBits(_, _, _)
MulBits(bits, c, carry) ==
    LET n == Len(bits) IN
    IF n = 0 THEN [bits |-> <<>>, carry |-> carry]
    ELSE IF n = 1 THEN LET v == bits[1] * c + carry
                       IN [bits |-> <<v % 2>>, carry |-> v \div 2]
    ELSE LET h == n \div 2
             lo == MulBits(SubSeq(bits, 1, h), c, carry)
             hi == MulBits(SubSeq(bits, h + 1, n), c, lo.carry)
         IN [bits |-> lo.bits \o hi.bits, carry |-> hi.carry]

\* x * c for a double x and a small positive integer c that is an exact double
FMulNat(x, c) ==
    IF x.zero THEN FZero
    ELSE LET m == MulBits(Reverse(x.bits), c, 0)
             p == NatBits(m.carry) \o Reverse(m.bits)
             extra == Len(p) - MantissaBits
             low == SubSeq(p, MantissaBits + 1, Len(p))
             tail == IF extra = 0 \/ low[1] = 0 THEN "lt"
                     ELSE IF AnyOne(Tail(low)) THEN "gt" ELSE "eq"
         IN FRound(SubSeq(p, 1, MantissaBits), tail, x.exp + extra)

\* lexicographic comparison of two mantissas of the same length
BitsGt(a, b) ==
    \E i \in DOMAIN a : a[i] > b[i] /\ \A j \in 1..(i - 1) : a[j] = b[j]

\* x > c for a double x >= 0 and a positive integer c
FGtNat(x, c) ==
    LET y == FFromNat(c) IN
    IF x.zero THEN FALSE
    ELSE IF x.exp # y.exp THEN x.exp > y.exp
    ELSE BitsGt(x.bits, y.bits)

(* ---------------------------------------------------------------------- *)
(* Extracted data and the risk level                                       *)
(* ---------------------------------------------------------------------- *)
\* JavaScript truthiness of a string field
Truthy(s) == s # ""

NormalTest == [flag |-> "", status |-> "Normal"]
AbnormalTests == {[flag |-> "H", status |-> "Normal"],
                  [flag |-> "", status |-> "High"],
                  [flag |-> "", status |-> "Low"]}

\* the JSON of an extraction: the key that holds the test list, and the list
MkData(key, t, a, ab) ==
    [key |-> key, tests |-> [i \in 1..t |-> IF i <= a THEN ab ELSE NormalTest]]

IsOutOfRange(test) == Truthy(test.flag) \/ test.status = "High" \/ test.status = "Low"

CountOutOfRange(tests) == Cardinality({i \in DOMAIN tests : IsOutOfRange(tests[i])})

\* the thresholds taken inclusive
determineRiskLevel_inclusive(extractedData) ==
    LET hasTests == extractedData.key = "tests"
        totalTests == IF hasTests THEN Len(extractedData.tests) ELSE 0
        outOfRangeCount == IF hasTests THEN CountOutOfRange(extractedData.tests) ELSE 0
        percentage == FMulNat(FDivNat(outOfRangeCount, totalTests), 100)
    IN IF totalTests = 0 THEN "Unknown"
       ELSE IF percentage = FFromNat(30) \/ FGtNat(percentage, 30) THEN "High"
       ELSE IF percentage = FFromNat(15) \/ FGtNat(percentage, 15) THEN "Medium"
       ELSE "Normal"

determineRiskLevel(extractedData) ==
    LET hasTests == extractedData.key = "tests"
        totalTests == IF hasTests THEN Len(extractedData.tests) ELSE 0
        outOfRangeCount == IF hasTests THEN CountOutOfRange(extractedData.tests) ELSE 0
        percentage == FMulNat(FDivNat(outOfRangeCount, totalTests), 100)
    IN IF totalTests = 0 THEN "Unknown"
       ELSE IF FGtNat(percentage, 30) THEN "High"
       ELSE IF FGtNat(percentage, 15) THEN "Medium"
       ELSE "Normal"

\* the characters String.prototype.trim takes off
WhiteSpace == {" ", "\n"}

RECURSIVE TrimLeft(_)
TrimLeft(t) == IF t # <<>> /\ Head(t) \in WhiteSpace THEN TrimLeft(Tail(t)) ELSE t

\* "*" stands for the bullet character U+2022
\* String.prototype.trim, and the trim: true setter of the schemas
TrimText(t) == Reverse(TrimLeft(Reverse(TrimLeft(t))))

(* ---------------------------------------------------------------------- *)
(* State                                                                   *)
(* ---------------------------------------------------------------------- *)
VARIABLES
    runs,       \* the upload requests: position in uploadReport / processComplete and locals
    reports,    \* the Report collection: reports[id], NoDoc once deleted
    vaults,     \* the Vault collection, one document per user (unique index on userID)
    chats,      \* the ChatBot collection: chats[id], NoDoc once deleted
    reqs,       \* the chat requests: position in the middleware / controller and locals
    turnSeq     \* number of user messages pushed so far; tags the entries of a turn

uploadVars == <<runs, reports, vaults>>
chatVars == <<chats, reqs, turnSeq>>
vars == <<runs, reports, vaults, chats, reqs, turnSeq>>

\* texts a narrative agent can write to its output file
NarrativeTexts == {<<>>, <<"a">>}
\* names the extraction hints and the vault agent can report, character by character
Ann == <<"A", "n", "n">>
Jane == <<"J", "a", "n", "e">>
PatientHints == {Ann}
VaultNames == {<<>>, Jane}
\* extraction results the pipeline model draws from
DataSamples == {MkData("tests", 2, 1, [flag |-> "H", status |-> "Normal"]),
                MkData("test_results", 1, 1, [flag |-> "", status |-> "High"])}

IdleRun == [user |-> "u1", file |-> FALSE, pc |-> "idle",
            exSt |-> "none", sumSt |-> "none", recSt |-> "none", fileSt |-> "none",
            extractedData |-> NoDoc, patientInfo |-> <<>>, summary |-> <<>>,
            recommendations |-> <<>>, patientName |-> <<>>, reportId |-> 0,
            vault |-> NoDoc, status |-> 0, body |-> "",
            sumBackend |-> 1, recBackend |-> 1, apiKey |-> TRUE]

Reqs == {1, 2}

IdleReq == [pc |-> "idle", op |-> "", user |-> "u1", chatId |-> 0, reportId |-> 0,
            message |-> <<>>, doc |-> NoDoc, turn |-> 0, sent |-> <<>>,
            early |-> FALSE, status |-> 0, error |-> "", reply |-> NoDoc,
            chatHistory |-> <<>>, backend |-> 1]

InitChatIdle ==
    /\ chats = <<>>
    /\ reqs = [q \in Reqs |-> IdleReq]
    /\ turnSeq = 0

Init ==
    /\ runs = [r \in Runs |-> IdleRun]
    /\ reports = <<>>
    /\ vaults = [u \in Users |-> NoDoc]
    /\ InitChatIdle

(* ---------------------------------------------------------------------- *)
(* uploadReport and AgentService.processComplete                           *)
(* ---------------------------------------------------------------------- *)
\* res.status(code).json(...): the 201 body carries the report id, the summary and the
\* recommendations, the other bodies a message and the error text
Respond(run, code) ==
    [run EXCEPT !.pc = "done", !.status = code,
                !.body = IF code = 201 THEN "results" ELSE "error"]

\* the narrative agents started together with the extraction
UploadStart_eager(r, u, hasFile) ==
    /\ runs[r].pc = "idle"
    /\ runs' = [runs EXCEPT ![r] =
                 IF ~hasFile THEN Respond([@ EXCEPT !.user = u], 400)
                 ELSE [@ EXCEPT !.user = u, !.file = TRUE, !.pc = "extract", !.exSt = "running",
                                !.sumSt = "running", !.recSt = "running"]]
    /\ UNCHANGED <<reports, vaults, chatVars>>

\* POST /api/extraction/upload arrives; processComplete starts the extraction
UploadStart(r, u, hasFile) ==
    /\ runs[r].pc = "idle"
    /\ runs' = [runs EXCEPT ![r] =
                 IF ~hasFile THEN Respond([@ EXCEPT !.user = u], 400)
                 ELSE [@ EXCEPT !.user = u, !.file = TRUE, !.pc = "extract", !.exSt = "running"]]
    /\ UNCHANGED <<reports, vaults, chatVars>>

\* a failed extraction not treated as fatal
ExtractDone_lenient(r, ok, data, hint) ==
    /\ runs[r].pc = "extract"
    /\ runs' = [runs EXCEPT ![r] =
                 [@ EXCEPT !.exSt = IF ok THEN "ok" ELSE "failed",
                           !.extractedData = data, !.patientInfo = hint,
                           !.pc = "narratives", !.sumSt = "running", !.recSt = "running"]]
    /\ UNCHANGED <<reports, vaults, chatVars>>

\* extractData settles; on success Promise.all starts both narrative agents
ExtractDone(r, ok, data, hint) ==
    /\ runs[r].pc = "extract"
    /\ runs' = [runs EXCEPT ![r] =
                 IF ok THEN [@ EXCEPT !.exSt = "ok", !.extractedData = data, !.patientInfo = hint,
                                      !.pc = "narratives", !.sumSt = "running", !.recSt = "running"]
                 ELSE Respond([@ EXCEPT !.exSt = "failed"], 500)]
    /\ UNCHANGED <<reports, vaults, chatVars>>

\* Promise.allSettled in place of Promise.all: goes on once both have settled
AfterNarrative_settled(run) ==
    IF run.pc # "narratives" THEN run
    ELSE IF run.sumSt # "running" /\ run.recSt # "running"
         THEN [run EXCEPT !.pc = "filing", !.fileSt = "running"]
    ELSE run

\* Promise.all: rejects with the first rejection, resolves when both have resolved,
\* and then processWithVaultAgent is started
AfterNarrative(run) ==
    IF run.pc # "narratives" THEN run
    ELSE IF run.sumSt = "failed" \/ run.recSt = "failed" THEN Respond(run, 500)
    ELSE IF run.sumSt = "ok" /\ run.recSt = "ok" THEN [run EXCEPT !.pc = "filing", !.fileSt = "running"]
    ELSE run

SummaryDone(r, ok, text) ==
    /\ runs[r].sumSt = "running"
    /\ runs' = [runs EXCEPT ![r] =
                 AfterNarrative(IF ok THEN [@ EXCEPT !.sumSt = "ok", !.summary = text]
                                ELSE [@ EXCEPT !.sumSt = "failed"])]
    /\ UNCHANGED <<reports, vaults, chatVars>>

RecommendationsDone(r, ok, text) ==
    /\ runs[r].recSt = "running"
    /\ runs' = [runs EXCEPT ![r] =
                 AfterNarrative(IF ok THEN [@ EXCEPT !.recSt = "ok", !.recommendations = text]
                                ELSE [@ EXCEPT !.recSt = "failed"])]
    /\ UNCHANGED <<reports, vaults, chatVars>>

\* processWithVaultAgent settles; on success processComplete returns to uploadReport,
\* which starts Report.create
FilingDone(r, ok, name) ==
    /\ runs[r].pc = "filing"
    /\ runs' = [runs EXCEPT ![r] =
                 IF ok THEN [@ EXCEPT !.fileSt = "ok", !.pc = "create",
                                      !.patientName = IF name # <<>> THEN name ELSE runs[r].patientInfo]
                 ELSE Respond([@ EXCEPT !.fileSt = "failed"], 500)]
    /\ UNCHANGED <<reports, vaults, chatVars>>

NewReport(run) ==
    [userID |-> run.user,
     patientName |-> TrimText(run.patientName),
     extractedData |-> run.extractedData,
     summary |-> TrimText(run.summary),
     recommendations |-> TrimText(run.recommendations),
     riskLevel |-> determineRiskLevel(run.extractedData)]

\* Report.create settles; on success updateUserVault starts with Vault.findOne
ReportCreate(r, ok) ==
    /\ runs[r].pc = "create"
    /\ IF ok
       THEN /\ reports' = Append(reports, NewReport(runs[r]))
            /\ runs' = [runs EXCEPT ![r].reportId = Len(reports) + 1, ![r].pc = "vaultFind"]
       ELSE /\ reports' = reports
            /\ runs' = [runs EXCEPT ![r] = Respond(@, 500)]
    /\ UNCHANGED <<vaults, chatVars>>

\* updateUserVault: Vault.findOne settles
VaultFind(r, ok) ==
    /\ runs[r].pc = "vaultFind"
    /\ runs' = [runs EXCEPT ![r] =
                 IF ok THEN [@ EXCEPT !.vault = vaults[runs[r].user], !.pc = "vaultWrite"]
                 ELSE Respond(@, 500)]
    /\ UNCHANGED <<reports, vaults, chatVars>>

FileData(r) ==
    [fileName |-> r, reportId |-> runs[r].reportId,
     patientName |-> TrimText(runs[r].patientName), status |-> "processed"]

\* updateUserVault: Vault.create (rejected by the unique index when the user has a
\* vault by now) or vault.files.push and vault.save (a $push on the stored document)
VaultWrite(r, ok) ==
    LET u == runs[r].user
        stored == vaults[u]
        create == runs[r].vault = NoDoc
        done == ok /\ (IF create THEN stored = NoDoc ELSE stored # NoDoc)
    IN /\ runs[r].pc = "vaultWrite"
       /\ vaults' = IF ~done THEN vaults
                    ELSE IF create THEN [vaults EXCEPT ![u] = [files |-> <<FileData(r)>>]]
                    ELSE [vaults EXCEPT ![u].files = Append(@, FileData(r))]
       /\ runs' = [runs EXCEPT ![r] = Respond(@, IF done THEN 201 ELSE 500)]
       /\ UNCHANGED <<reports, chatVars>>

UploadNext ==
    \/ \E r \in Runs, u \in Users, hasFile \in BOOLEAN : UploadStart(r, u, hasFile)
    \/ \E r \in Runs, ok \in BOOLEAN, data \in DataSamples, hint \in PatientHints :
          ExtractDone(r, ok, data, hint)
    \/ \E r \in Runs, ok \in BOOLEAN, text \in NarrativeTexts : SummaryDone(r, ok, text)
    \/ \E r \in Runs, ok \in BOOLEAN, text \in NarrativeTexts : RecommendationsDone(r, ok, text)
    \/ \E r \in Runs, ok \in BOOLEAN, name \in VaultNames : FilingDone(r, ok, name)
    \/ \E r \in Runs, ok \in BOOLEAN : ReportCreate(r, ok)
    \/ \E r \in Runs, ok \in BOOLEAN : VaultFind(r, ok)
    \/ \E r \in Runs, ok \in BOOLEAN : VaultWrite(r, ok)

(* ---------------------------------------------------------------------- *)
(* Texts: sequences of characters; a word stands for a run of letters      *)
(* ---------------------------------------------------------------------- *)
NonEmptyText(t) == t # <<>>

\* value.split(/\n|bullet|-/)
RECURSIVE SplitText(_)
SplitText(t) ==
    IF t = <<>> THEN << <<>> >>
    ELSE LET rest == SplitText(Tail(t)) IN
         IF Head(t) \in {"\n", "*", "-"} THEN << <<>> >> \o rest
         ELSE << <<Head(t)>> \o Head(rest) >> \o Tail(rest)

\* recommendations.join('\n<bullet> ')
RECURSIVE JoinBullets(_)
JoinBullets(items) ==
    IF Len(items) = 0 THEN <<>>
    ELSE IF Len(items) = 1 THEN Head(items)
    ELSE Head(items) \o <<"\n", "*", " ">> \o JoinBullets(Tail(items))

normalizeRecommendations(value) ==
    IF value = <<>> THEN <<>>
    ELSE LET parts == SplitText(value)
         IN SelectSeq([i \in DOMAIN parts |-> TrimText(parts[i])], NonEmptyText)

(* ---------------------------------------------------------------------- *)
(* Chat sessions                                                           *)
(* ---------------------------------------------------------------------- *)
MaxTurns == 2
MaxFreshTurns == 1
HistoryLimit == 20
RateLimit == 2

\* messages a client sends
UserMessages == {<<>>, <<" ">>, <<" ", "hi">>}
\* candidate replies of the language model
CandidateReplies == {<<"ok">>, <<"ok", " ", "take", " ", "ferrous sulfate">>}

\* an entry of chatHistory; turn tells the entries of one sendMessage call from those of
\* another (0 for the seeded ones), filtered whether the text is the output of the
\* chatbot's post-response safety filter
Entry(role, message, turn, filtered) ==
    [role |-> role, message |-> TrimText(message), turn |-> turn, filtered |-> filtered]

buildInitialMessages_raw(report) ==
    LET recommendations == normalizeRecommendations(report.recommendations)
    IN (IF report.summary # <<>>
        THEN <<Entry("assistant", <<"Here is the report summary:", "\n">> \o report.summary, 0, FALSE)>>
        ELSE <<>>)
       \o
       (IF report.recommendations # <<>>
        THEN <<Entry("assistant", <<"Recommended next steps:", "\n", "*", " ">>
                                    \o JoinBullets(recommendations), 0, FALSE)>>
        ELSE <<>>)

buildInitialMessages(report) ==
    LET recommendations == normalizeRecommendations(report.recommendations)
    IN (IF report.summary # <<>>
        THEN <<Entry("assistant", <<"Here is the report summary:", "\n">> \o report.summary, 0, FALSE)>>
        ELSE <<>>)
       \o
       (IF Len(recommendations) > 0
        THEN <<Entry("assistant", <<"Recommended next steps:", "\n", "*", " ">>
                                    \o JoinBullets(recommendations), 0, FALSE)>>
        ELSE <<>>)

PossibleKeys == {"tests", "test_results", "testResults", "lab_tests", "labTests", "lab_results"}

extractTests(extractedData) ==
    IF extractedData.key \in PossibleKeys /\ Len(extractedData.tests) > 0
    THEN extractedData.tests ELSE <<>>

\* UniversalLabChatbot.chat: the model's candidate reply through the post-response
\* safety filter, which takes the medication advice out
SafetyFilter(candidate) ==
    IF \E i \in DOMAIN candidate : candidate[i] = "ferrous sulfate" THEN <<"ok">> ELSE candidate

\* the chat documents of a user for a report, in insertion order
ChatsOf(u, rid) ==
    {c \in DOMAIN chats : chats[c] # NoDoc /\ chats[c].userID = u /\ chats[c].relatedReportID = rid}

\* ChatBot.findOne({ _id, userID })
FindChat(c, u) ==
    IF c \in DOMAIN chats /\ chats[c] # NoDoc /\ chats[c].userID = u THEN chats[c] ELSE NoDoc

\* the lookup by id alone
FindReport_anyOwner(rid, u) ==
    IF rid \in DOMAIN reports /\ reports[rid] # NoDoc THEN reports[rid] ELSE NoDoc

\* Report.findOne({ _id, userID })
FindReport(rid, u) ==
    IF rid \in DOMAIN reports /\ reports[rid] # NoDoc /\ reports[rid].userID = u
    THEN reports[rid] ELSE NoDoc

Answer(req, code) ==
    [IdleReq EXCEPT !.pc = "done", !.op = req.op, !.status = code, !.chatId = req.chatId,
                    !.reply = req.reply, !.chatHistory = req.chatHistory]

\* a request takes the first free slot
FreeSlot(q) == reqs[q].pc = "idle" /\ \A p \in Reqs : p < q => reqs[p].pc # "idle"

\* POST /api/chat/start: validateStartChat, then startChat begins with Report.findOne
StartArrive(q, u, rid) ==
    /\ FreeSlot(q)
    /\ reqs' = [reqs EXCEPT ![q] =
                 IF rid = 0 THEN Answer([@ EXCEPT !.op = "start"], 400)
                 ELSE [@ EXCEPT !.op = "start", !.user = u, !.reportId = rid, !.pc = "startReport"]]
    /\ UNCHANGED <<uploadVars, chats, turnSeq>>

\* Report.findOne settles; the report is kept and ChatBot.findOne is awaited
StartReport(q, ok) ==
    /\ reqs[q].pc = "startReport"
    /\ reqs' = [reqs EXCEPT ![q] =
                 IF ~ok THEN Answer(@, 500)
                 ELSE IF FindReport(reqs[q].reportId, reqs[q].user) = NoDoc THEN Answer(@, 404)
                 ELSE [@ EXCEPT !.pc = "startFind",
                                !.doc = FindReport(reqs[q].reportId, reqs[q].user)]]
    /\ UNCHANGED <<uploadVars, chats, turnSeq>>

\* ChatBot.findOne settles: the existing session is returned, or a new one is seeded
\* from the report loaded before and its save is awaited
StartFind(q, ok, report) ==
    LET found == ChatsOf(reqs[q].user, reqs[q].reportId)
        c == CHOOSE c \in found : \A d \in found : c <= d
        seeded == buildInitialMessages(report)
    IN /\ reqs[q].pc = "startFind"
       /\ report = reqs[q].doc
       /\ reqs' = [reqs EXCEPT ![q] =
                    IF ~ok THEN Answer(@, 500)
                    ELSE IF found # {}
                    THEN Answer([@ EXCEPT !.chatId = c, !.chatHistory = chats[c].chatHistory], 200)
                    ELSE [@ EXCEPT !.pc = "startSave",
                                   !.doc = [userID |-> reqs[q].user,
                                            relatedReportID |-> reqs[q].reportId,
                                            chatHistory |-> seeded, v |-> 0,
                                            age |-> IF seeded = <<>> THEN RateLimit ELSE 0]]]
       /\ UNCHANGED <<uploadVars, chats, turnSeq>>

\* chatSession.save of the new session settles
StartSave(q, ok) ==
    /\ reqs[q].pc = "startSave"
    /\ IF ok
       THEN /\ chats' = Append(chats, reqs[q].doc)
            /\ reqs' = [reqs EXCEPT ![q] =
                         Answer([@ EXCEPT !.chatId = Len(chats) + 1,
                                          !.chatHistory = reqs[q].doc.chatHistory,
                                          !.doc = NoDoc], 200)]
       ELSE /\ chats' = chats
            /\ reqs' = [reqs EXCEPT ![q] = Answer([@ EXCEPT !.doc = NoDoc], 500)]
    /\ UNCHANGED <<uploadVars, turnSeq>>

\* requests that will push a user message
PendingTurns == Cardinality({q \in Reqs : reqs[q].op = "send" /\ reqs[q].pc \in {"limit", "handler"}})

\* the last entry of the session is the reply of a turn that completed less than
\* RateLimit seconds ago
TurnJustDone(chatSession) ==
    /\ chatSession # NoDoc
    /\ Len(chatSession.chatHistory) > 0
    /\ chatSession.chatHistory[Len(chatSession.chatHistory)].turn # 0
    /\ chatSession.age < RateLimit

\* the message of the 400 response of validateMessage, "" when the request passes
ValidationMessage(c, message) ==
    IF message = <<>> THEN "Message is required and must be a string"
    ELSE IF TrimText(message) = <<>> THEN "Message cannot be empty"
    ELSE IF c = 0 THEN "Chat ID is required"
    ELSE ""

SendArrive_unchecked(q, u, c, message, budget) ==
    /\ FreeSlot(q)
    /\ turnSeq + PendingTurns < budget
    /\ reqs' = [reqs EXCEPT ![q] =
                 IF c = 0
                 THEN [Answer([@ EXCEPT !.op = "send"], 400) EXCEPT
                          !.error = ValidationMessage(c, message)]
                 ELSE [@ EXCEPT !.op = "send", !.user = u, !.chatId = c, !.message = message,
                                !.early = TurnJustDone(FindChat(c, u)), !.pc = "limit"]]
    /\ UNCHANGED <<uploadVars, chats, turnSeq>>

\* POST /api/chat/message: validateMessage, then chatRateLimit begins with ChatBot.findOne
SendArrive(q, u, c, message, budget) ==
    /\ FreeSlot(q)
    /\ turnSeq + PendingTurns < budget
    /\ reqs' = [reqs EXCEPT ![q] =
                 IF ValidationMessage(c, message) # ""
                 THEN [Answer([@ EXCEPT !.op = "send"], 400) EXCEPT
                          !.error = ValidationMessage(c, message)]
                 ELSE [@ EXCEPT !.op = "send", !.user = u, !.chatId = c, !.message = message,
                                !.early = TurnJustDone(FindChat(c, u)), !.pc = "limit"]]
    /\ UNCHANGED <<uploadVars, chats, turnSeq>>

chatRateLimit_open(q, ok) ==
    LET chatSession == FindChat(reqs[q].chatId, reqs[q].user)
    IN /\ reqs[q].pc = "limit"
       /\ reqs' = [reqs EXCEPT ![q] =
                    IF ~ok THEN [@ EXCEPT !.pc = "handler"]
                    ELSE IF chatSession = NoDoc THEN Answer(@, 404)
                    ELSE [@ EXCEPT !.pc = "handler"]]
       /\ UNCHANGED <<uploadVars, chats, turnSeq>>

\* chatRateLimit: ChatBot.findOne settles; a failed lookup lets the request through
chatRateLimit(q, ok) ==
    LET chatSession == FindChat(reqs[q].chatId, reqs[q].user)
    IN /\ reqs[q].pc = "limit"
       /\ reqs' = [reqs EXCEPT ![q] =
                    IF ~ok THEN [@ EXCEPT !.pc = "handler"]
                    ELSE IF chatSession = NoDoc THEN Answer(@, 404)
                    ELSE IF Len(chatSession.chatHistory) > 0 /\ chatSession.age < RateLimit
                    THEN Answer(@, 429)
                    ELSE [@ EXCEPT !.pc = "handler"]]
       /\ UNCHANGED <<uploadVars, chats, turnSeq>>

\* sendMessage: ChatBot.findOne().populate settles; the report is checked, the user
\* message is pushed on the loaded document and the chatbot is called
SendLoad(q, ok) ==
    LET chatSession == FindChat(reqs[q].chatId, reqs[q].user)
        report == IF chatSession.relatedReportID \in DOMAIN reports
                  THEN reports[chatSession.relatedReportID] ELSE NoDoc
        pushed == Append(chatSession.chatHistory,
                         Entry("user", reqs[q].message, turnSeq + 1, FALSE))
        go == ok /\ chatSession # NoDoc /\ report # NoDoc
                   /\ Len(extractTests(report.extractedData)) > 0
    IN /\ reqs[q].pc = "handler"
       /\ reqs' = [reqs EXCEPT ![q] =
                    IF ~ok THEN Answer(@, 500)
                    ELSE IF chatSession = NoDoc THEN Answer(@, 404)
                    ELSE IF report = NoDoc THEN Answer(@, 500)
                    ELSE IF Len(extractTests(report.extractedData)) = 0 THEN Answer(@, 400)
                    ELSE [@ EXCEPT !.pc = "awaitBot", !.turn = turnSeq + 1,
                                   !.doc = [chatSession EXCEPT !.chatHistory = pushed],
                                   !.sent = pushed]]
       /\ turnSeq' = IF go THEN turnSeq + 1 ELSE turnSeq
       /\ UNCHANGED <<uploadVars, chats>>

SaveTurn_replyOnly(saving, stored, doc, botEntry, truncated) ==
    IF ~saving \/ stored = NoDoc THEN NoDoc
    ELSE IF Len(truncated) < Len(doc.chatHistory) + 1
    THEN IF stored.v = doc.v
         THEN [stored EXCEPT !.chatHistory = truncated, !.v = @ + 1, !.age = 0]
         ELSE NoDoc
    ELSE [stored EXCEPT !.chatHistory = @ \o <<botEntry>>,
                        !.v = @ + 1, !.age = 0]

\* chatSession.save() after sendMessage: pushes alone go out as a $push on the stored
\* array; a reassigned array goes out as a $set guarded by the version read
SaveTurn(saving, stored, doc, botEntry, truncated) ==
    IF ~saving \/ stored = NoDoc THEN NoDoc
    ELSE IF Len(truncated) < Len(doc.chatHistory) + 1
    THEN IF stored.v = doc.v
         THEN [stored EXCEPT !.chatHistory = truncated, !.v = @ + 1, !.age = 0]
         ELSE NoDoc
    ELSE [stored EXCEPT !.chatHistory = @ \o <<doc.chatHistory[Len(doc.chatHistory)], botEntry>>,
                        !.v = @ + 1, !.age = 0]

Truncate_short(history) ==
    IF Len(history) > HistoryLimit
    THEN SubSeq(history, Len(history) - HistoryLimit + 2, Len(history))
    ELSE history

\* keep only the last 20 messages
Truncate(history) ==
    IF Len(history) > HistoryLimit
    THEN SubSeq(history, Len(history) - HistoryLimit + 1, Len(history))
    ELSE history

\* sendMessage: _callChatBot settles; on a reply the assistant entry is pushed, the
\* history truncated, the session saved and the reply returned
BotDone(q, ok, saving, candidate) ==
    LET c == reqs[q].chatId
        doc == reqs[q].doc
        botResponse == SafetyFilter(candidate)
        botEntry == Entry("assistant", botResponse, reqs[q].turn, TRUE)
        truncated == Truncate(Append(doc.chatHistory, botEntry))
        saved == SaveTurn(saving, chats[c], doc, botEntry, truncated)
    IN /\ reqs[q].pc = "awaitBot"
       /\ IF ok /\ saved # NoDoc
          THEN /\ chats' = [chats EXCEPT ![c] = saved]
               /\ reqs' = [reqs EXCEPT ![q] =
                            Answer([@ EXCEPT !.reply = botEntry, !.chatHistory = truncated,
                                             !.doc = NoDoc], 200)]
          ELSE /\ chats' = chats
               /\ reqs' = [reqs EXCEPT ![q] = Answer([@ EXCEPT !.doc = NoDoc], 500)]
       /\ UNCHANGED <<uploadVars, turnSeq>>

\* the response has gone out
Release(q) ==
    /\ reqs[q].pc = "done"
    /\ reqs' = [reqs EXCEPT ![q] = IdleReq]
    /\ UNCHANGED <<uploadVars, chats, turnSeq>>

\* d seconds pass: the last entry of every session gets older; past the rate limit
\* window the age no longer matters and is not counted further
Advance(d) ==
    /\ \E c \in DOMAIN chats : chats[c] # NoDoc /\ chats[c].age < RateLimit
    /\ chats' = [c \in DOMAIN chats |->
                   IF chats[c] = NoDoc THEN NoDoc
                   ELSE [chats[c] EXCEPT !.age = IF @ + d > RateLimit THEN RateLimit ELSE @ + d]]
    /\ UNCHANGED <<uploadVars, reqs, turnSeq>>

ChatNext ==
    \/ \E q \in Reqs, u \in Users, rid \in 0..Len(reports) : StartArrive(q, u, rid)
    \/ \E q \in Reqs, ok \in BOOLEAN : StartReport(q, ok)
    \/ \E q \in Reqs, ok \in BOOLEAN : StartFind(q, ok, reqs[q].doc)
    \/ \E q \in Reqs, ok \in BOOLEAN : StartSave(q, ok)
    \/ \E q \in Reqs, u \in Users, c \in 0..Len(chats), message \in UserMessages :
          SendArrive(q, u, c, message, MaxFreshTurns)
    \/ \E q \in Reqs, ok \in BOOLEAN : chatRateLimit(q, ok)
    \/ \E q \in Reqs, ok \in BOOLEAN : SendLoad(q, ok)
    \/ \E q \in Reqs, ok \in BOOLEAN, saving \in BOOLEAN, candidate \in CandidateReplies :
          BotDone(q, ok, saving, candidate)
    \/ \E q \in Reqs : Release(q)
    \/ \E d \in 1..RateLimit : Advance(d)

\* the reports the chat model starts from: one upload of user u1 gone through
ChatReports ==
    {NewReport([IdleRun EXCEPT !.extractedData = MkData("tests", 2, 1, [flag |-> "H", status |-> "Normal"]),
                               !.summary = summary, !.recommendations = recommendations,
                               !.patientName = Jane]) :
        summary \in NarrativeTexts, recommendations \in NarrativeTexts \cup {<<"-">>}}
    \cup
    {NewReport([IdleRun EXCEPT !.extractedData = data, !.patientName = Jane]) :
        data \in {MkData("lab_results", 1, 1, [flag |-> "", status |-> "High"]),
                  MkData("tests", 0, 0, NormalTest)}}

\* the history k turns one after the other leave behind, the first of them numbered first
RECURSIVE TurnsDone(_, _, _)
TurnsDone(history, first, k) ==
    IF k = 0 THEN history
    ELSE TurnsDone(Truncate(history \o <<Entry("user", <<"hi">>, first, FALSE),
                                         Entry("assistant", <<"ok">>, first, TRUE)>>),
                   first + 1, k - 1)

\* the numbers of turns a session has had when it is first looked at, the last one
\* long ago
EarlierTurns == {8, 9, 10}

EarlierSession(report, k) ==
    [userID |-> report.userID, relatedReportID |-> 1,
     chatHistory |-> TurnsDone(buildInitialMessages(report), 0 - k, k),
     v |-> k, age |-> RateLimit]

\* sessions followed from their creation
InitChat ==
    /\ runs = [r \in Runs |-> IdleRun]
    /\ vaults = [u \in Users |-> NoDoc]
    /\ reqs = [q \in Reqs |-> IdleReq]
    /\ turnSeq = 0
    /\ chats = <<>>
    /\ \E report \in ChatReports : reports = <<report>>

SpecChat == InitChat /\ [][ChatNext]_vars

\* sessions followed from the moment they have had some turns
InitTurns ==
    /\ runs = [r \in Runs |-> IdleRun]
    /\ vaults = [u \in Users |-> NoDoc]
    /\ reqs = [q \in Reqs |-> IdleReq]
    /\ turnSeq = 0
    /\ \E report \in ChatReports, k \in EarlierTurns :
          /\ Len(extractTests(report.extractedData)) > 0
          /\ reports = <<report>>
          /\ chats = <<EarlierSession(report, k)>>

TurnsNext ==
    \/ \E q \in Reqs, u \in Users, c \in 0..Len(chats), message \in UserMessages :
          SendArrive(q, u, c, message, MaxTurns)
    \/ \E q \in Reqs, ok \in BOOLEAN : chatRateLimit(q, ok)
    \/ \E q \in Reqs, ok \in BOOLEAN : SendLoad(q, ok)
    \/ \E q \in Reqs, ok \in BOOLEAN, saving \in BOOLEAN, candidate \in CandidateReplies :
          BotDone(q, ok, saving, candidate)
    \/ \E q \in Reqs : Release(q)
    \/ \E d \in 1..RateLimit : Advance(d)

SpecTurns == InitTurns /\ [][TurnsNext]_vars

(* ---------------------------------------------------------------------- *)
(* One upload and one chat request at a time, with the steps the server and  *)
(* the database take by themselves; the language model may never answer      *)
(* ---------------------------------------------------------------------- *)
InitLive ==
    /\ runs = [r \in Runs |-> IdleRun]
    /\ vaults = [u \in Users |-> NoDoc]
    /\ reqs = [q \in Reqs |-> IdleReq]
    /\ turnSeq = 0
    /\ \E report \in ChatReports :
          /\ Len(extractTests(report.extractedData)) > 0
          /\ reports = <<report>>
          /\ chats = <<EarlierSession(report, 8)>>

\* the steps that settle by themselves: the extraction and filing subprocesses and the
\* database operations
LiveExtract == \E ok \in BOOLEAN, data \in DataSamples, hint \in PatientHints : ExtractDone(1, ok, data, hint)
LiveFiling == \E ok \in BOOLEAN, name \in VaultNames : FilingDone(1, ok, name)
LiveCreate == \E ok \in BOOLEAN : ReportCreate(1, ok)
LiveVaultFind == \E ok \in BOOLEAN : VaultFind(1, ok)
LiveVaultWrite == \E ok \in BOOLEAN : VaultWrite(1, ok)
LiveRateLimit == \E ok \in BOOLEAN : chatRateLimit(1, ok)
LiveLoad == \E ok \in BOOLEAN : SendLoad(1, ok)

LiveNext ==
    \/ \E hasFile \in BOOLEAN : UploadStart(1, "u1", hasFile)
    \/ LiveExtract
    \/ \E ok \in BOOLEAN, text \in NarrativeTexts : SummaryDone(1, ok, text)
    \/ \E ok \in BOOLEAN, text \in NarrativeTexts : RecommendationsDone(1, ok, text)
    \/ LiveFiling
    \/ LiveCreate
    \/ LiveVaultFind
    \/ LiveVaultWrite
    \/ \E message \in UserMessages : SendArrive(1, "u1", 1, message, MaxTurns)
    \/ LiveRateLimit
    \/ LiveLoad
    \/ \E ok \in BOOLEAN, saving \in BOOLEAN, candidate \in CandidateReplies :
          BotDone(1, ok, saving, candidate)
    \/ Release(1)
    \/ \E d \in 1..RateLimit : Advance(d)

\* nothing in _runPythonScript or _callChatBot makes the close event of the summary,
\* recommendations or chatbot subprocess happen: those steps get no fairness
LiveFairness ==
    /\ WF_vars(LiveExtract) /\ WF_vars(LiveFiling) /\ WF_vars(LiveCreate)
    /\ WF_vars(LiveVaultFind) /\ WF_vars(LiveVaultWrite)
    /\ WF_vars(LiveRateLimit) /\ WF_vars(LiveLoad)

SpecLive == InitLive /\ [][LiveNext]_vars /\ LiveFairness

(* ---------------------------------------------------------------------- *)
(* The vault overview: getVaultOverview and groupFilesByPatient             *)
(* ---------------------------------------------------------------------- *)
UpperCase == <<"A", "B", "C", "D", "E", "F", "G", "H", "I", "J", "K", "L", "M",
               "N", "O", "P", "Q", "R", "S", "T", "U", "V", "W", "X", "Y", "Z">>
LowerCase == <<"a", "b", "c", "d", "e", "f", "g", "h", "i", "j", "k", "l", "m",
               "n", "o", "p", "q", "r", "s", "t", "u", "v", "w", "x", "y", "z">>

\* String.prototype.toLowerCase
toLowerCase(t) ==
    [i \in DOMAIN t |->
        IF \E k \in DOMAIN UpperCase : UpperCase[k] = t[i]
        THEN LowerCase[CHOOSE k \in DOMAIN UpperCase : UpperCase[k] = t[i]]
        ELSE t[i]]

\* 'Unlabeled Patient' and 'unlabeled'
UnlabeledPatient == <<"U", "n", "l", "a", "b", "e", "l", "e", "d", " ",
                      "P", "a", "t", "i", "e", "n", "t">>
Unlabeled == <<"u", "n", "l", "a", "b", "e", "l", "e", "d">>

\* file.patientName || 'Unlabeled Patient'
GroupName(file) == IF file.patientName # <<>> THEN file.patientName ELSE UnlabeledPatient

\* patientName.toLowerCase().trim() || 'unlabeled'
GroupKey(file) ==
    LET key == TrimText(toLowerCase(GroupName(file)))
    IN IF key # <<>> THEN key ELSE Unlabeled

\* files.forEach over the Map: the groups in the order their keys first appear, each
\* with the name of its first file and the positions of its files in vault.files
RECURSIVE GroupFold(_, _, _)
GroupFold(files, i, groups) ==
    IF i > Len(files) THEN groups
    ELSE LET key == GroupKey(files[i])
             at == {g \in DOMAIN groups : groups[g].key = key}
         IN GroupFold(files, i + 1,
                IF at = {}
                THEN Append(groups, [key |-> key, patientName |-> GroupName(files[i]), files |-> <<i>>])
                ELSE [groups EXCEPT ![CHOOSE g \in at : TRUE].files = Append(@, i)])

\* the upload dates are in the order of the positions in vault.files: the files of a
\* group sorted latest first, and what the group reports of them
groupFilesByPatient(files) ==
    LET groups == GroupFold(files, 1, <<>>)
    IN [g \in DOMAIN groups |->
          LET sortedFiles == Reverse(groups[g].files)
          IN [patientName |-> groups[g].patientName,
              lastUpdated |-> sortedFiles[1],
              totalFiles |-> Len(sortedFiles),
              files |-> sortedFiles]]

\* Array.prototype.sort on lastUpdated, latest first
RECURSIVE SortByLastUpdated(_)
SortByLastUpdated(groups) ==
    IF groups = <<>> THEN <<>>
    ELSE LET latest == CHOOSE g \in DOMAIN groups :
                          \A h \in DOMAIN groups : groups[h].lastUpdated <= groups[g].lastUpdated
         IN <<groups[latest]>>
            \o SortByLastUpdated(SelectSeq(groups, LAMBDA group : group # groups[latest]))

VaultOverview(vault) ==
    IF vault = NoDoc \/ Len(vault.files) = 0
    THEN [patientVaults |-> <<>>, stats |-> [totalPatients |-> 0, totalReports |-> 0]]
    ELSE LET patientVaults == SortByLastUpdated(groupFilesByPatient(vault.files))
         IN [patientVaults |-> patientVaults,
             stats |-> [totalPatients |-> Len(patientVaults), totalReports |-> Len(vault.files)]]

\* GET /api/vault: Vault.findOne settles and the overview is answered
getVaultOverview(q, u, ok) ==
    /\ FreeSlot(q)
    /\ reqs' = [reqs EXCEPT ![q] =
                 IF ok THEN Answer([@ EXCEPT !.op = "overview", !.reply = VaultOverview(vaults[u])], 200)
                 ELSE Answer([@ EXCEPT !.op = "overview"], 500)]
    /\ UNCHANGED <<uploadVars, chats, turnSeq>>

MaxEarlierFiles == 2

JaneDoe == <<"J", "a", "n", "e", " ", "D", "o", "e">>
\* owner names the vault agent can report: none, blank, one owner in three spellings,
\* and an owner whose name is the text the overview uses for files without a name
OwnerNames ==
    {<<>>, <<" ">>, JaneDoe, toLowerCase(JaneDoe), <<" ">> \o JaneDoe \o <<" ">>, UnlabeledPatient}

\* the vault files k earlier uploads have left: each as updateUserVault stores it
EarlierFiles(k) ==
    {[i \in 1..k |-> [fileName |-> 0 - i, reportId |-> 0,
                      patientName |-> TrimText(names[i]), status |-> "processed"]] :
        names \in [1..k -> OwnerNames]}

\* a user whose earlier uploads are filed, and one upload of theirs at the filing stage
InitVault ==
    /\ \E hint \in PatientHints \cup {<<>>} :
          runs = [r \in Runs |->
                    IF r = 1 THEN [IdleRun EXCEPT !.file = TRUE, !.pc = "filing", !.exSt = "ok",
                                                  !.sumSt = "ok", !.recSt = "ok", !.fileSt = "running",
                                                  !.extractedData = MkData("tests", 1, 0, NormalTest),
                                                  !.patientInfo = hint,
                                                  !.summary = <<"a">>, !.recommendations = <<"a">>]
                    ELSE IdleRun]
    /\ reports = <<>>
    /\ \E k \in 0..MaxEarlierFiles : \E files \in EarlierFiles(k) :
          vaults = [u \in Users |-> IF u = "u1" /\ k > 0 THEN [files |-> files] ELSE NoDoc]
    /\ InitChatIdle

VaultNext ==
    \/ \E ok \in BOOLEAN, name \in OwnerNames : FilingDone(1, ok, name)
    \/ \E ok \in BOOLEAN : ReportCreate(1, ok)
    \/ \E ok \in BOOLEAN : VaultFind(1, ok)
    \/ \E ok \in BOOLEAN : VaultWrite(1, ok)
    \/ \E u \in Users, ok \in BOOLEAN : getVaultOverview(1, u, ok)
    \/ Release(1)

SpecVault == InitVault /\ [][VaultNext]_vars

(* ---------------------------------------------------------------------- *)
(* The backend fallback list of the generator behind the narrative agents   *)
(* and the chatbot: the subprocess goes down the list by itself and closes   *)
(* once a backend has answered or the list is used up                        *)
(* ---------------------------------------------------------------------- *)
BackendCount == 4

\* the first transient failure fails the call
SummaryBackendFails_giveUp(r) ==
    /\ runs[r].sumSt = "running"
    /\ SummaryDone(r, FALSE, <<>>)

\* the backend the summary agent is trying fails with a rate limit or quota error
SummaryBackendFails(r) ==
    /\ runs[r].sumSt = "running"
    /\ IF runs[r].sumBackend < BackendCount
       THEN /\ runs' = [runs EXCEPT ![r].sumBackend = @ + 1]
            /\ UNCHANGED <<reports, vaults, chatVars>>
       ELSE SummaryDone(r, FALSE, <<>>)

RecommendationsBackendFails(r) ==
    /\ runs[r].recSt = "running"
    /\ IF runs[r].recBackend < BackendCount
       THEN /\ runs' = [runs EXCEPT ![r].recBackend = @ + 1]
            /\ UNCHANGED <<reports, vaults, chatVars>>
       ELSE RecommendationsDone(r, FALSE, <<>>)

BotBackendFails(q) ==
    /\ reqs[q].pc = "awaitBot"
    /\ IF reqs[q].backend < BackendCount
       THEN /\ reqs' = [reqs EXCEPT ![q].backend = @ + 1]
            /\ UNCHANGED <<uploadVars, chats, turnSeq>>
       ELSE BotDone(q, FALSE, FALSE, <<"ok">>)

\* an upload whose extraction has just succeeded, and a session with earlier turns
InitFallback ==
    /\ runs = [r \in Runs |->
                 IF r = 1 THEN [IdleRun EXCEPT !.file = TRUE, !.pc = "narratives", !.exSt = "ok",
                                               !.sumSt = "running", !.recSt = "running",
                                               !.extractedData = MkData("tests", 1, 0, NormalTest),
                                               !.patientInfo = Ann]
                 ELSE IdleRun]
    /\ vaults = [u \in Users |-> NoDoc]
    /\ reqs = [q \in Reqs |-> IdleReq]
    /\ turnSeq = 0
    /\ \E report \in ChatReports :
          /\ Len(extractTests(report.extractedData)) > 0
          /\ report.summary # <<>> /\ report.recommendations = <<"a">>
          /\ reports = <<report>>
          /\ chats = <<EarlierSession(report, 8)>>

FallbackNext ==
    \/ \E ok \in BOOLEAN, text \in NarrativeTexts : SummaryDone(1, ok, text)
    \/ \E ok \in BOOLEAN, text \in NarrativeTexts : RecommendationsDone(1, ok, text)
    \/ SummaryBackendFails(1)
    \/ RecommendationsBackendFails(1)
    \/ \E ok \in BOOLEAN, name \in VaultNames : FilingDone(1, ok, name)
    \/ \E ok \in BOOLEAN : ReportCreate(1, ok)
    \/ \E ok \in BOOLEAN : VaultFind(1, ok)
    \/ \E ok \in BOOLEAN : VaultWrite(1, ok)
    \/ \E message \in UserMessages : SendArrive(1, "u1", 1, message, MaxFreshTurns)
    \/ \E ok \in BOOLEAN : chatRateLimit(1, ok)
    \/ \E ok \in BOOLEAN : SendLoad(1, ok)
    \/ \E ok \in BOOLEAN, saving \in BOOLEAN, candidate \in CandidateReplies :
          BotDone(1, ok, saving, candidate)
    \/ BotBackendFails(1)
    \/ Release(1)

SpecFallback == InitFallback /\ [][FallbackNext]_vars

(* ---------------------------------------------------------------------- *)
(* One upload on a server whose configuration may lack the API credential:  *)
(* _runPythonScript hands process.env.GOOGLE_GEMINI_API_KEY to every agent   *)
(* ---------------------------------------------------------------------- *)
InitConfig ==
    /\ \E key \in BOOLEAN : runs = [r \in Runs |-> [IdleRun EXCEPT !.apiKey = key]]
    /\ reports = <<>>
    /\ vaults = [u \in Users |-> NoDoc]
    /\ InitChatIdle

\* a narrative agent without the credential cannot have its text generated
KeyedSummaryDone(r, ok, text) == (ok => runs[r].apiKey) /\ SummaryDone(r, ok, text)

KeyedRecommendationsDone(r, ok, text) == (ok => runs[r].apiKey) /\ RecommendationsDone(r, ok, text)

ConfigNext ==
    \/ \E u \in Users, hasFile \in BOOLEAN : UploadStart(1, u, hasFile)
    \/ \E ok \in BOOLEAN, data \in DataSamples, hint \in PatientHints : ExtractDone(1, ok, data, hint)
    \/ \E ok \in BOOLEAN, text \in NarrativeTexts : KeyedSummaryDone(1, ok, text)
    \/ \E ok \in BOOLEAN, text \in NarrativeTexts : KeyedRecommendationsDone(1, ok, text)
    \/ \E ok \in BOOLEAN, name \in VaultNames : FilingDone(1, ok, name)
    \/ \E ok \in BOOLEAN : ReportCreate(1, ok)
    \/ \E ok \in BOOLEAN : VaultFind(1, ok)
    \/ \E ok \in BOOLEAN : VaultWrite(1, ok)

SpecConfig == InitConfig /\ [][ConfigNext]_vars

(* ---------------------------------------------------------------------- *)
(* The result object of processComplete and its reader testAgentIntegration *)
(* ---------------------------------------------------------------------- *)
\* a value together with whether it is defined; undefined is the value of a property
\* an object does not have
Undefined == [defined |-> FALSE]
Value(v) == [defined |-> TRUE, value |-> v]

\* obj.name
Field(obj, name) == IF name \in DOMAIN obj THEN Value(obj[name]) ELSE Undefined

\* what extractData returned to a run whose extraction succeeded
extractionResult(run) ==
    [data |-> run.extractedData,
     jsonPath |-> "medical_json",
     patientInfo |-> [name |-> run.patientInfo],
     testCount |-> Len(run.extractedData.tests)]

\* what processComplete returns to a run whose filing succeeded
processCompleteResult(run) ==
    LET extraction == extractionResult(run)
    IN [patientName |-> Value(run.patientName),
        vaultPath |-> Value("vault_dir"),
        extractedData |-> Field(extraction, "data"),
        jsonPath |-> Field(extraction, "jsonPath"),
        testCount |-> Field(extraction, "testCount"),
        summary |-> Value(run.summary),
        recommendations |-> Value(run.recommendations),
        metadata |-> Field(extraction, "metadata"),
        status |-> Value("success")]

\* testAgentIntegration: result.metadata.testCount and result.metadata.jsonPath
testAgentIntegration(result) ==
    IF ~result.metadata.defined THEN "TypeError"
    ELSE IF ~Field(result.metadata.value, "testCount").defined
            \/ ~Field(result.metadata.value, "jsonPath").defined THEN "undefined printed"
    ELSE "successful"

(* ---------------------------------------------------------------------- *)
(* The report and chat operations of two users side by side                 *)
(* ---------------------------------------------------------------------- *)
ReportOps == {"myReports", "report", "deleteReport"}
SessionOps == {"history", "sessions", "deleteChat"}

\* a request for one of the read or delete operations arrives; the authenticated user
\* and the id of the route are taken and the database is asked
QueryArrive(q, u, op, id) ==
    /\ FreeSlot(q)
    /\ reqs' = [reqs EXCEPT ![q] =
                 [@ EXCEPT !.pc = "query", !.op = op, !.user = u,
                           !.reportId = IF op \in ReportOps THEN id ELSE 0,
                           !.chatId = IF op \in SessionOps THEN id ELSE 0]]
    /\ UNCHANGED <<uploadVars, chats, turnSeq>>

\* the positions of a sequence, last first
RECURSIVE Descending(_)
Descending(n) == IF n = 0 THEN <<>> ELSE <<n>> \o Descending(n - 1)

\* a report as the list shows it: .select('-extractedData')
ListedReport(rid) ==
    [id |-> rid, userID |-> reports[rid].userID, patientName |-> reports[rid].patientName,
     summary |-> reports[rid].summary, recommendations |-> reports[rid].recommendations,
     riskLevel |-> reports[rid].riskLevel]

\* Report.find({ userID }).sort({ createdAt: -1 })
getMyReports(q, ok) ==
    LET mine == SelectSeq(Descending(Len(reports)),
                          LAMBDA rid : reports[rid] # NoDoc /\ reports[rid].userID = reqs[q].user)
    IN /\ reqs[q].pc = "query" /\ reqs[q].op = "myReports"
       /\ reqs' = [reqs EXCEPT ![q] =
                    IF ok THEN Answer([@ EXCEPT !.reply = [data |-> [i \in DOMAIN mine |-> ListedReport(mine[i])]]], 200)
                    ELSE Answer(@, 500)]
       /\ UNCHANGED <<uploadVars, chats, turnSeq>>

\* Report.findOne({ _id, userID })
getReportById(q, ok) ==
    LET report == FindReport(reqs[q].reportId, reqs[q].user)
    IN /\ reqs[q].pc = "query" /\ reqs[q].op = "report"
       /\ reqs' = [reqs EXCEPT ![q] =
                    IF ~ok THEN Answer(@, 500)
                    ELSE IF report = NoDoc THEN Answer(@, 404)
                    ELSE Answer([@ EXCEPT !.reply = [data |-> report]], 200)]
       /\ UNCHANGED <<uploadVars, chats, turnSeq>>

\* Report.findOneAndDelete({ _id, userID })
deleteReport(q, ok) ==
    LET report == FindReport(reqs[q].reportId, reqs[q].user)
    IN /\ reqs[q].pc = "query" /\ reqs[q].op = "deleteReport"
       /\ reqs' = [reqs EXCEPT ![q] =
                    IF ~ok THEN Answer(@, 500)
                    ELSE IF report = NoDoc THEN Answer(@, 404)
                    ELSE Answer(@, 200)]
       /\ reports' = IF ok /\ report # NoDoc
                     THEN [reports EXCEPT ![reqs[q].reportId] = NoDoc] ELSE reports
       /\ UNCHANGED <<runs, vaults, chats, turnSeq>>

\* .populate('relatedReportID', ...): the report the session points at, null when it
\* is gone
Populated(chatSession) ==
    IF chatSession.relatedReportID \in DOMAIN reports
    THEN reports[chatSession.relatedReportID] ELSE NoDoc

\* ChatBot.findOne({ _id, userID }).populate(...); owner is the userID of the stored
\* session, which the response does not show
getChatHistory(q, ok) ==
    LET chatSession == FindChat(reqs[q].chatId, reqs[q].user)
    IN /\ reqs[q].pc = "query" /\ reqs[q].op = "history"
       /\ reqs' = [reqs EXCEPT ![q] =
                    IF ~ok THEN Answer(@, 500)
                    ELSE IF chatSession = NoDoc THEN Answer(@, 404)
                    ELSE Answer([@ EXCEPT !.reply = [report |-> Populated(chatSession),
                                                     owner |-> chatSession.userID],
                                          !.chatHistory = chatSession.chatHistory], 200)]
       /\ UNCHANGED <<uploadVars, chats, turnSeq>>

\* ChatBot.find({ userID }).populate(...): the entries of the list, without their order
getChatSessions(q, ok) ==
    LET mine == {c \in DOMAIN chats : chats[c] # NoDoc /\ chats[c].userID = reqs[q].user}
    IN /\ reqs[q].pc = "query" /\ reqs[q].op = "sessions"
       /\ reqs' = [reqs EXCEPT ![q] =
                    IF ok THEN Answer([@ EXCEPT !.reply =
                                 [data |-> {[chatId |-> c, report |-> Populated(chats[c]),
                                             messageCount |-> Len(chats[c].chatHistory),
                                             owner |-> chats[c].userID] : c \in mine}]], 200)
                    ELSE Answer(@, 500)]
       /\ UNCHANGED <<uploadVars, chats, turnSeq>>

\* ChatBot.findOneAndDelete({ _id, userID })
deleteChat(q, ok) ==
    LET chatSession == FindChat(reqs[q].chatId, reqs[q].user)
    IN /\ reqs[q].pc = "query" /\ reqs[q].op = "deleteChat"
       /\ reqs' = [reqs EXCEPT ![q] =
                    IF ~ok THEN Answer(@, 500)
                    ELSE IF chatSession = NoDoc THEN Answer(@, 404)
                    ELSE Answer(@, 200)]
       /\ chats' = IF ok /\ chatSession # NoDoc
                   THEN [chats EXCEPT ![reqs[q].chatId] = NoDoc] ELSE chats
       /\ UNCHANGED <<uploadVars, turnSeq>>

MaxSessions == 1

\* the startChat requests that may still create a session
StartsPending ==
    Cardinality({q \in Reqs : reqs[q].op = "start" /\ reqs[q].pc \notin {"idle", "done"}})

\* each user has uploaded one report, filed in their vault
InitIsolation ==
    /\ runs = [r \in Runs |-> IdleRun]
    /\ vaults = [u \in Users |->
                   [files |-> <<[fileName |-> 0, reportId |-> IF u = "u1" THEN 1 ELSE 2,
                                 patientName |-> Jane, status |-> "processed"]>>]]
    /\ reqs = [q \in Reqs |-> IdleReq]
    /\ turnSeq = 0
    /\ LET report(u) == NewReport([IdleRun EXCEPT !.user = u, !.patientName = Jane,
                                                  !.extractedData = MkData("tests", 1, 1, [flag |-> "H", status |-> "Normal"]),
                                                  !.summary = <<"a">>])
       IN /\ reports = <<report("u1"), report("u2")>>
          /\ chats = <<>>

IsolationNext ==
    \/ \E q \in Reqs, u \in Users, rid \in 1..Len(reports) :
          Len(chats) + StartsPending < MaxSessions /\ StartArrive(q, u, rid)
    \/ \E q \in Reqs, ok \in BOOLEAN : StartReport(q, ok)
    \/ \E q \in Reqs, ok \in BOOLEAN : StartFind(q, ok, reqs[q].doc)
    \/ \E q \in Reqs, ok \in BOOLEAN : StartSave(q, ok)
    \/ \E q \in Reqs, u \in Users, c \in 0..Len(chats) :
          SendArrive(q, u, c, <<" ", "hi">>, MaxFreshTurns)
    \/ \E q \in Reqs, ok \in BOOLEAN : chatRateLimit(q, ok)
    \/ \E q \in Reqs, ok \in BOOLEAN : SendLoad(q, ok)
    \/ \E q \in Reqs, ok \in BOOLEAN, saving \in BOOLEAN : BotDone(q, ok, saving, <<"ok">>)
    \/ \E q \in Reqs : Release(q)
    \/ \E q \in Reqs, u \in Users, op \in ReportOps, rid \in 1..Len(reports) :
          QueryArrive(q, u, op, rid)
    \/ \E q \in Reqs, u \in Users, op \in SessionOps, c \in 1..Len(chats) :
          QueryArrive(q, u, op, c)
    \/ \E q \in Reqs, ok \in BOOLEAN : getMyReports(q, ok)
    \/ \E q \in Reqs, ok \in BOOLEAN : getReportById(q, ok)
    \/ \E q \in Reqs, ok \in BOOLEAN : deleteReport(q, ok)
    \/ \E q \in Reqs, ok \in BOOLEAN : getChatHistory(q, ok)
    \/ \E q \in Reqs, ok \in BOOLEAN : getChatSessions(q, ok)
    \/ \E q \in Reqs, ok \in BOOLEAN : deleteChat(q, ok)

SpecIsolation == InitIsolation /\ [][IsolationNext]_vars

(* ---------------------------------------------------------------------- *)
(* What the close handlers make of the standard output of a subprocess;     *)
(* a marker is one element of the text                                      *)
(* ---------------------------------------------------------------------- *)
\* output.includes(marker)
Includes(output, marker) == \E i \in DOMAIN output : output[i] = marker

\* the text up to the first marker, all of it when there is none
RECURSIVE UpTo(_, _)
UpTo(t, marker) ==
    IF t = <<>> \/ Head(t) = marker THEN <<>> ELSE <<Head(t)>> \o UpTo(Tail(t), marker)

RECURSIVE AfterFirst(_, _)
AfterFirst(t, marker) ==
    IF t = <<>> THEN <<>>
    ELSE IF Head(t) = marker THEN Tail(t) ELSE AfterFirst(Tail(t), marker)

\* output.split(marker)[1]
SecondPart(output, marker) == UpTo(AfterFirst(output, marker), marker)

\* _callChatBot, on 'close'
parseChatOutput(exitCode, output) ==
    IF exitCode # 0 THEN [ok |-> FALSE, text |-> <<>>]
    ELSE IF Includes(output, "ERROR:") THEN [ok |-> FALSE, text |-> <<>>]
    ELSE IF Includes(output, "BOT_RESPONSE:")
         THEN [ok |-> TRUE, text |-> TrimText(SecondPart(output, "BOT_RESPONSE:"))]
    ELSE [ok |-> FALSE, text |-> <<>>]

\* processWithVaultAgent after _runPythonCode: the JSON line is stood for by the
\* patient_name it holds
parseAgentOutput(exitCode, output) ==
    IF exitCode # 0 THEN [ok |-> FALSE, text |-> <<>>]
    ELSE IF Includes(output, "ERROR:") THEN [ok |-> FALSE, text |-> <<>>]
    ELSE IF ~Includes(output, "OUTPUT_JSON:") THEN [ok |-> FALSE, text |-> <<>>]
    ELSE [ok |-> TRUE, text |-> UpTo(TrimText(SecondPart(output, "OUTPUT_JSON:")), "\n")]

\* replies the chatbot prints after its marker, and names the vault agent prints
BotResponses ==
    {<<"ok">>, <<"lab", " ", "ERROR:", " ", "ok">>, <<"see", " ", "BOT_RESPONSE:", " ", "ok">>,
     <<"ok", "\n", "more">>}
AgentNames == {Jane, <<"J", "ERROR:", "e">>}
ExitCodes == {0, 1}

\* the chatbot subprocess closes having printed BOT_RESPONSE: and its reply
BotClose(q, exitCode, response, saving) ==
    LET parsed == parseChatOutput(exitCode, <<"BOT_RESPONSE:">> \o response \o <<"\n">>)
    IN BotDone(q, parsed.ok, saving, parsed.text)

\* the vault agent subprocess closes having printed OUTPUT_JSON: and its result
FilingClose(r, exitCode, name) ==
    LET parsed == parseAgentOutput(exitCode, <<"OUTPUT_JSON:">> \o name \o <<"\n">>)
    IN FilingDone(r, parsed.ok, parsed.text)

\* an upload at the filing stage, and sessions that have had some turns
InitParse ==
    /\ runs = [r \in Runs |->
                 IF r = 1 THEN [IdleRun EXCEPT !.file = TRUE, !.pc = "filing", !.exSt = "ok",
                                               !.sumSt = "ok", !.recSt = "ok", !.fileSt = "running",
                                               !.extractedData = MkData("tests", 1, 0, NormalTest),
                                               !.patientInfo = Ann,
                                               !.summary = <<"a">>, !.recommendations = <<"a">>]
                 ELSE IdleRun]
    /\ vaults = [u \in Users |-> NoDoc]
    /\ reqs = [q \in Reqs |-> IdleReq]
    /\ turnSeq = 0
    /\ \E report \in ChatReports :
          /\ Len(extractTests(report.extractedData)) > 0
          /\ reports = <<report>>
          /\ chats = <<EarlierSession(report, 8)>>

ParseNext ==
    \/ \E exitCode \in ExitCodes, name \in AgentNames : FilingClose(1, exitCode, name)
    \/ \E message \in UserMessages : SendArrive(1, "u1", 1, message, MaxFreshTurns)
    \/ \E ok \in BOOLEAN : chatRateLimit(1, ok)
    \/ \E ok \in BOOLEAN : SendLoad(1, ok)
    \/ \E exitCode \in ExitCodes, response \in BotResponses, saving \in BOOLEAN :
          BotClose(1, exitCode, response, saving)
    \/ Release(1)

SpecParse == InitParse /\ [][ParseNext]_vars

Next == UploadNext

Spec == Init /\ [][Next]_vars

(* ---------------------------------------------------------------------- *)
(* The risk level of a report: uploadReport from the return of             *)
(* processComplete on, for every count of tests and of abnormal tests      *)
(* ---------------------------------------------------------------------- *)
RiskSweep ==
    UNION {{MkData("tests", t, a, ab) : a \in 0..t, ab \in AbnormalTests} : t \in 0..MaxTests}
    \cup {MkData("test_results", 1, 1, [flag |-> "", status |-> "High"])}

InitRisk ==
    /\ \E data \in RiskSweep :
          runs = [r \in Runs |->
                    IF r = 1 THEN [IdleRun EXCEPT !.file = TRUE, !.pc = "create", !.exSt = "ok",
                                                  !.sumSt = "ok", !.recSt = "ok", !.fileSt = "ok",
                                                  !.extractedData = data, !.summary = <<"a">>,
                                                  !.recommendations = <<"a">>, !.patientName = Jane]
                    ELSE IdleRun]
    /\ reports = <<>>
    /\ vaults = [u \in Users |-> NoDoc]
    /\ InitChatIdle

NextRisk == \E r \in Runs, ok \in BOOLEAN : ReportCreate(r, ok)

SpecRisk == InitRisk /\ [][NextRisk]_vars

(* ---------------------------------------------------------------------- *)
(* Properties of the upload pipeline                                       *)
(* ---------------------------------------------------------------------- *)
\* the vault file entries that run r has written
VaultEntriesOf(r) ==
    {<<u, i>> \in {<<u, i>> \in Users \X (1..Cardinality(Runs)) :
                     vaults[u] # NoDoc /\ i <= Len(vaults[u].files)} :
        vaults[u].files[i].fileName = r}

\* every stored report was created by exactly one run
ReportsHaveRuns ==
    \A id \in DOMAIN reports : Cardinality({r \in Runs : runs[r].reportId = id}) = 1

InFlight(c) ==
    \E q \in Reqs : /\ reqs[q].op = "send" /\ reqs[q].chatId = c
                    /\ reqs[q].pc \in {"limit", "handler", "awaitBot"}

\* every user entry is immediately followed by the assistant entry of the same turn,
\* and every assistant entry of a turn immediately follows its user entry
PairsIntact(history) ==
    \A i \in DOMAIN history :
        /\ history[i].role = "user" =>
              /\ i < Len(history)
              /\ history[i + 1].role = "assistant"
              /\ history[i + 1].turn = history[i].turn
        /\ (history[i].role = "assistant" /\ history[i].turn # 0) =>
              /\ i > 1
              /\ history[i - 1].role = "user"
              /\ history[i - 1].turn = history[i].turn

IsTurnEntry(entry) == entry.turn # 0

\* C5: the stored chat history of every session holds at most 20 entries.
C5_HistoryBounded ==
    \A c \in DOMAIN chats : Len(chats[c].chatHistory) <= HistoryLimit

\* C6: each successful sendMessage appends exactly two entries to the stored history,
\* the trimmed user message immediately followed by the reply it returns, keeping the
\* last 20 of them when it truncates; and in every stored history each user entry is
\* immediately followed by the assistant reply of the same turn.
C6_TurnAppendsPair ==
    [][\A q \in Reqs :
          (reqs[q].pc = "awaitBot" /\ reqs'[q].pc = "done" /\ reqs'[q].status = 200) =>
             LET c == reqs[q].chatId
                 pair == <<[role |-> "user", message |-> TrimText(reqs[q].message),
                            turn |-> reqs[q].turn, filtered |-> FALSE],
                           reqs'[q].reply>>
                 appended == chats[c].chatHistory \o pair
             IN /\ reqs'[q].reply.role = "assistant"
                /\ chats'[c].chatHistory \in {appended, Truncate(appended)}
                /\ \A d \in DOMAIN chats' : PairsIntact(chats'[d].chatHistory)]_vars

\* a turn has been answered whose save dropped a whole earlier pair
C6_Witness ==
    \E q \in Reqs :
        /\ reqs[q].pc = "done" /\ reqs[q].op = "send" /\ reqs[q].status = 200
        /\ LET h == chats[reqs[q].chatId].chatHistory
           IN /\ h = reqs[q].chatHistory
              /\ Len(h) = HistoryLimit
              /\ h[Len(h)] = reqs[q].reply
              /\ h[1].role = "user"
              /\ 2 * chats[reqs[q].chatId].v > Len(h)

\* C7 as stated: every startChat and every sendMessage that writes a session leaves its
\* stored history with an even length, unless a turn is still in flight on it.
C7_EvenLength ==
    [][\A c \in DOMAIN chats' :
          (/\ c \in DOMAIN chats => chats'[c].chatHistory # chats[c].chatHistory
           /\ ~(\E q \in Reqs : /\ reqs'[q].op = "send" /\ reqs'[q].chatId = c
                                /\ reqs'[q].pc \in {"limit", "handler", "awaitBot"}))
          => Len(chats'[c].chatHistory) % 2 = 0]_vars

\* C7: the stored history is its remaining seeded entries followed by whole
\* user/assistant pairs: the seeded entries come first, and the number of entries that
\* belong to turns is even.
C7_WholePairsAfterSeeds ==
    \A c \in DOMAIN chats :
        LET h == chats[c].chatHistory
        IN /\ Len(SelectSeq(h, IsTurnEntry)) % 2 = 0
           /\ \A i \in DOMAIN h : ~IsTurnEntry(h[i]) => \A j \in 1..i : ~IsTurnEntry(h[j])

\* a session seeded with a single entry has had a turn and no request is in flight on it
C7_Witness ==
    \E c \in DOMAIN chats :
        /\ ~InFlight(c)
        /\ Len(chats[c].chatHistory) % 2 = 1
        /\ Len(SelectSeq(chats[c].chatHistory, IsTurnEntry)) > 0
        /\ \E q \in Reqs : reqs[q].pc = "done" /\ reqs[q].status = 200 /\ reqs[q].op = "send"
                           /\ reqs[q].chatId = c

\* C8: when the chatbot call of a turn fails, the stored history is left longer by
\* exactly the user entry of that turn.
C8_UserMessageKept ==
    [][\A q \in Reqs :
          (\E candidate \in CandidateReplies : BotDone(q, FALSE, TRUE, candidate)) =>
             chats'[reqs[q].chatId].chatHistory =
                Append(chats[reqs[q].chatId].chatHistory,
                       [role |-> "user", message |-> TrimText(reqs[q].message),
                        turn |-> reqs[q].turn, filtered |-> FALSE])]_vars

\* the assistant texts of a history all come out of the safety filter
AllFiltered(history) ==
    \A i \in DOMAIN history : history[i].role = "assistant" => history[i].filtered

\* C9: every assistant text that startChat or sendMessage stores in a session's history
\* or returns to the caller, the seeded entries included, is the output of the safety
\* filter.
C9_AssistantFiltered ==
    [][/\ \A c \in DOMAIN chats' :
             (c \in DOMAIN chats => chats'[c].chatHistory # chats[c].chatHistory)
             => AllFiltered(chats'[c].chatHistory)
       /\ \A q \in Reqs :
             (reqs'[q].pc = "done" /\ reqs[q].pc # "done") =>
                /\ reqs'[q].reply # NoDoc => reqs'[q].reply.filtered
                /\ AllFiltered(reqs'[q].chatHistory)]_vars

\* C10 as stated: a sendMessage that arrived less than 2 seconds after the previous turn
\* of its session completed never gets past the rate limit.
C10_EarlyTurnRejected ==
    \A q \in Reqs : reqs[q].early => reqs[q].pc = "limit"

\* C10: when the rate limit's lookup succeeds and finds the last entry of the session
\* less than 2 seconds old, the request is answered 429, no chatbot call is made for
\* it and the stored history is left as it was.
C10_RateLimitWhenLookupSucceeds ==
    [][\A q \in Reqs :
          (/\ chatRateLimit(q, TRUE)
           /\ LET chatSession == FindChat(reqs[q].chatId, reqs[q].user)
              IN chatSession # NoDoc /\ Len(chatSession.chatHistory) > 0
                 /\ chatSession.age < RateLimit) =>
             /\ reqs'[q].pc = "done" /\ reqs'[q].status = 429
             /\ chats' = chats
             /\ turnSeq' = turnSeq]_vars

\* a request that followed a completed turn within the window has been answered 429
C10_Witness ==
    \E q \in Reqs, c \in DOMAIN chats :
        /\ reqs[q].pc = "done" /\ reqs[q].op = "send" /\ reqs[q].status = 429
        /\ reqs[q].chatId = c
        /\ chats[c].age < RateLimit
        /\ chats[c].chatHistory[Len(chats[c].chatHistory)].turn > 0

\* C11: at most one turn per session is awaiting its chatbot reply: no two requests
\* have loaded the history of the same session and are both waiting to write it back.
C11_OneTurnInFlight ==
    \A p \in Reqs, q \in Reqs :
        (p # q /\ reqs[p].pc = "awaitBot" /\ reqs[q].pc = "awaitBot")
        => reqs[p].chatId # reqs[q].chatId

\* C12: at most one chat session exists for an owner and a report, and every startChat
\* answered 200 for them returns that session.
C12_OneSessionPerReport ==
    /\ \A u \in Users, rid \in DOMAIN reports : Cardinality(ChatsOf(u, rid)) <= 1
    /\ \A p \in Reqs, q \in Reqs :
          (/\ reqs[p].pc = "done" /\ reqs[p].op = "start" /\ reqs[p].status = 200
           /\ reqs[q].pc = "done" /\ reqs[q].op = "start" /\ reqs[q].status = 200
           /\ chats[reqs[p].chatId].userID = chats[reqs[q].chatId].userID
           /\ chats[reqs[p].chatId].relatedReportID = chats[reqs[q].chatId].relatedReportID)
          => reqs[p].chatId = reqs[q].chatId

\* C13: an upload whose stages and database operations all succeed adds exactly one
\* file entry to the single vault record of its user, whatever other uploads of that
\* user are under way and whether or not the user had a vault record, and leaves the
\* vault records of the other users as they were.
C13_ConcurrentUploadsAllFiled ==
    [][\A r \in Runs :
          VaultWrite(r, TRUE) =>
             LET u == runs[r].user
                 before == IF vaults[u] = NoDoc THEN <<>> ELSE vaults[u].files
             IN /\ runs'[r].status = 201
                /\ vaults'[u] # NoDoc
                /\ vaults'[u].files = Append(before, FileData(r))
                /\ \A v \in Users \ {u} : vaults'[v] = vaults[v]]_vars

\* C14: a run whose summary or recommendations text is empty or whitespace-only is
\* treated as failed: it is not answered 201 and no stored Report has a blank summary
\* or blank recommendations.
C14_BlankNarrativeRejected ==
    /\ \A id \in DOMAIN reports :
          TrimText(reports[id].summary) # <<>> /\ TrimText(reports[id].recommendations) # <<>>
    /\ \A r \in Runs :
          (runs[r].sumSt = "ok" /\ runs[r].recSt = "ok"
           /\ (TrimText(runs[r].summary) = <<>> \/ TrimText(runs[r].recommendations) = <<>>))
          => runs[r].pc = "done" /\ runs[r].status = 500

\* C15: when the filing of a run fails after its extraction and both narratives have
\* succeeded, the failure is reported and the results are kept: a Report holding them
\* is stored or the response carries them.
C15_FilingFailureKeepsResults ==
    \A r \in Runs :
        (runs[r].pc = "done" /\ runs[r].fileSt = "failed") =>
            /\ runs[r].status # 201
            /\ \/ runs[r].body = "results"
               \/ \E id \in DOMAIN reports :
                     /\ reports[id].userID = runs[r].user
                     /\ reports[id].extractedData = runs[r].extractedData
                     /\ reports[id].summary = TrimText(runs[r].summary)
                     /\ runs[r].reportId = id

\* C16: every upload run and every chat turn eventually gets its response, also when
\* the summary, recommendations or chatbot call never answers.
C16_EveryCallSettles ==
    /\ (runs[1].pc \notin {"idle", "done"}) ~> (runs[1].pc = "done")
    /\ (reqs[1].pc \in {"limit", "handler", "awaitBot"}) ~> (reqs[1].pc = "done")

\* C17: a sendMessage whose message is empty or whitespace-only is answered 400 on
\* arrival, with the stored histories left as they were, and never gets to the rate
\* limit, the handler or the chatbot call.
C17_BlankMessageRejected ==
    [][/\ \A q \in Reqs, u \in Users, c \in 0..Len(chats), message \in UserMessages,
             budget \in {MaxTurns, MaxFreshTurns} :
             (/\ reqs[q].pc = "idle" /\ reqs'[q].pc # "idle"
              /\ TrimText(message) = <<>>
              /\ SendArrive(q, u, c, message, budget)) =>
                /\ reqs'[q].pc = "done" /\ reqs'[q].status = 400
                /\ chats' = chats
                /\ turnSeq' = turnSeq
       /\ \A q \in Reqs :
             reqs'[q].pc \in {"limit", "handler", "awaitBot"}
             => TrimText(reqs'[q].message) # <<>>]_vars

\* a whitespace-only message has been answered 400
C17_Witness ==
    \E q \in Reqs :
        /\ reqs[q].pc = "done" /\ reqs[q].op = "send" /\ reqs[q].status = 400
        /\ reqs[q].error = "Message cannot be empty"

\* C18: a session created by startChat holds assistant entries only: the summary entry
\* exactly when the report's summary is not empty, then the recommendations entry
\* exactly when the report's recommendations normalize to a list that is not empty;
\* startChat on a report that has a session answers with the stored history and
\* changes no session
C18_NewSessionSeeded ==
    [][\A q \in Reqs :
         /\ (reqs[q].pc = "startSave" /\ reqs'[q].pc = "done" /\ reqs'[q].status = 200) =>
               LET report == reports[reqs[q].reportId]
                   history == chats'[Len(chats')].chatHistory
                   hasSummary == report.summary # <<>>
                   hasSteps == normalizeRecommendations(report.recommendations) # <<>>
               IN /\ Len(chats') = Len(chats) + 1
                  /\ reqs'[q].chatId = Len(chats')
                  /\ \A i \in DOMAIN history : history[i].role = "assistant"
                  /\ Len(history) = (IF hasSummary THEN 1 ELSE 0) + (IF hasSteps THEN 1 ELSE 0)
                  /\ hasSummary => Head(history[1].message) = "Here is the report summary:"
                  /\ hasSteps => Head(history[Len(history)].message) = "Recommended next steps:"
                  /\ reqs'[q].chatHistory = history
         /\ (reqs[q].pc = "startFind" /\ reqs'[q].pc = "done" /\ reqs'[q].status = 200) =>
               /\ chats' = chats
               /\ reqs'[q].chatId \in ChatsOf(reqs[q].user, reqs[q].reportId)
               /\ reqs'[q].chatHistory = chats[reqs'[q].chatId].chatHistory]_vars

\* a session was created with both seeded entries, had a turn, and a later startChat
\* was answered with its history
C18_Witness ==
    \E q \in Reqs :
        /\ reqs[q].pc = "done" /\ reqs[q].op = "start" /\ reqs[q].status = 200
        /\ Len(reqs[q].chatHistory) = 4
        /\ reqs[q].chatHistory[1].turn = 0 /\ reqs[q].chatHistory[2].turn = 0
        /\ reqs[q].chatHistory[3].role = "user"
        /\ chats[reqs[q].chatId].chatHistory = reqs[q].chatHistory

\* the files of the vault an overview is computed from
FilesOf(u) == IF vaults[u] = NoDoc THEN <<>> ELSE vaults[u].files

\* bucket g of an overview lists the file at position i
Holds(patientVaults, g, i) ==
    \E k \in DOMAIN patientVaults[g].files : patientVaults[g].files[k] = i

\* an owner name lower-cased and trimmed
Normalized(name) == TrimText(toLowerCase(name))

\* C19: in a vault overview two files with non-empty owner names are in the same bucket
\* if and only if their names are equal after lower-casing and trimming; every file is
\* in exactly one bucket; the totalFiles of the bucket of a named file is the number
\* of files with that normalized name
C19_BucketsByNormalizedName ==
    [][\A q \in Reqs, u \in Users :
         (/\ reqs[q].pc = "idle" /\ reqs'[q].op = "overview" /\ reqs'[q].status = 200
          /\ getVaultOverview(q, u, TRUE)) =>
            LET files == FilesOf(u)
                patientVaults == reqs'[q].reply.patientVaults
                Named == {i \in DOMAIN files : files[i].patientName # <<>>}
            IN /\ \A i \in DOMAIN files :
                     Cardinality({g \in DOMAIN patientVaults : Holds(patientVaults, g, i)}) = 1
               /\ \A i \in Named, j \in Named :
                     (\E g \in DOMAIN patientVaults :
                         Holds(patientVaults, g, i) /\ Holds(patientVaults, g, j))
                     <=> Normalized(files[i].patientName) = Normalized(files[j].patientName)
               /\ \A i \in Named, g \in DOMAIN patientVaults :
                     Holds(patientVaults, g, i) =>
                        patientVaults[g].totalFiles =
                           Cardinality({j \in DOMAIN files :
                                          Normalized(files[j].patientName)
                                             = Normalized(files[i].patientName)})]_vars

\* C20: in a vault overview a bucket that holds a file without a resolved owner name
\* holds every such file of the vault and no file with a resolved owner name
C20_OneUnlabeledBucket ==
    [][\A q \in Reqs, u \in Users :
         (/\ reqs[q].pc = "idle" /\ reqs'[q].op = "overview" /\ reqs'[q].status = 200
          /\ getVaultOverview(q, u, TRUE)) =>
            LET files == FilesOf(u)
                patientVaults == reqs'[q].reply.patientVaults
                Unresolved == {i \in DOMAIN files : TrimText(files[i].patientName) = <<>>}
            IN \A g \in DOMAIN patientVaults :
                  (\E i \in Unresolved : Holds(patientVaults, g, i)) =>
                     \A j \in DOMAIN files : Holds(patientVaults, g, j) <=> j \in Unresolved]_vars

C22_MissingCredentialStopsAtStart ==
    \A r \in Runs :
        ~runs[r].apiKey =>
            /\ runs[r].exSt = "none" /\ runs[r].sumSt = "none" /\ runs[r].recSt = "none"
            /\ (runs[r].file => runs[r].pc = "done" /\ runs[r].status = 500)

\* C23: the result of every processComplete call that succeeds has a metadata record
\* with testCount and jsonPath, next to patientName, summary, recommendations and
\* vaultPath, and testAgentIntegration reads it without error
C23_ResultCarriesMetadata ==
    \A r \in Runs :
        runs[r].fileSt = "ok" =>
            LET result == processCompleteResult(runs[r])
            IN /\ \A name \in {"patientName", "summary", "recommendations", "vaultPath"} :
                     result[name].defined
               /\ result.metadata.defined
               /\ testAgentIntegration(result) = "successful"

\* the users whose reports and sessions the response of a request shows; for the
\* session of a start or send response, the owner of the stored session
OwnersShown(response, sessions) ==
    IF response.status # 200 THEN {}
    ELSE IF response.op = "myReports"
         THEN {response.reply.data[i].userID : i \in DOMAIN response.reply.data}
    ELSE IF response.op = "report" THEN {response.reply.data.userID}
    ELSE IF response.op = "history"
         THEN {response.reply.owner}
              \cup (IF response.reply.report = NoDoc THEN {} ELSE {response.reply.report.userID})
    ELSE IF response.op = "sessions"
         THEN {entry.owner : entry \in response.reply.data}
              \cup {entry.report.userID : entry \in {e \in response.reply.data : e.report # NoDoc}}
    ELSE IF response.op \in {"start", "send"} /\ response.chatId \in DOMAIN sessions
            /\ sessions[response.chatId] # NoDoc
         THEN {sessions[response.chatId].userID}
    ELSE {}

\* C24: whatever ids a user sends, the response to their request shows reports and
\* sessions of that user only, and a step of their request changes, creates or deletes
\* reports and sessions of that user only
C24_UserIsolation ==
    [][\A q \in Reqs :
         (reqs[q].pc \notin {"idle", "done"} /\ reqs'[q] # reqs[q]) =>
            /\ reqs'[q].pc = "done" =>
                  OwnersShown(reqs'[q], chats) \cup OwnersShown(reqs'[q], chats')
                     \subseteq {reqs[q].user}
            /\ \A c \in DOMAIN chats' :
                  /\ (c \in DOMAIN chats /\ chats'[c] # chats[c]) => chats[c].userID = reqs[q].user
                  /\ c \notin DOMAIN chats => chats'[c].userID = reqs[q].user
            /\ \A rid \in DOMAIN reports :
                  reports'[rid] # reports[rid] => reports[rid].userID = reqs[q].user]_vars

\* the second user asked for the first user's report, session and the deletion of both
\* and was refused, and the first user was shown their own
C24_Witness ==
    /\ reqs[1].pc = "done" /\ reqs[1].op = "history" /\ reqs[1].status = 200
    /\ reqs[1].reply.owner = "u1"
    /\ reqs[2].pc = "done" /\ reqs[2].op = "deleteReport" /\ reqs[2].status = 404
    /\ reports[1] # NoDoc /\ reports[2] # NoDoc

\* C25: the history handed to the chatbot for a turn is the history the session had
\* before the turn: the user message of the turn is not in it
C25_PriorHistoryOnly ==
    \A q \in Reqs :
        reqs[q].pc = "awaitBot" =>
            /\ \A i \in DOMAIN reqs[q].sent : reqs[q].sent[i].turn # reqs[q].turn
            /\ reqs[q].sent = SubSeq(reqs[q].doc.chatHistory, 1, Len(reqs[q].doc.chatHistory) - 1)

\* C26: an upload answered with a failure has stored no Report, and a finished upload
\* that stored a Report has its entry in the vault
C26_ReportAndVaultTogether ==
    \A r \in Runs :
        runs[r].pc = "done" =>
            /\ runs[r].status # 201 => runs[r].reportId = 0
            /\ runs[r].reportId # 0 => VaultEntriesOf(r) # {}

\* C27: every stored Report in which sendMessage finds lab tests (a list that is not
\* empty under one of the accepted keys) has a riskLevel other than 'Unknown'
C27_TestsImplyRiskLevel ==
    \A rid \in DOMAIN reports :
        (reports[rid] # NoDoc /\ Len(extractTests(reports[rid].extractedData)) > 0)
            => reports[rid].riskLevel # "Unknown"

\* C28: every stored session and every vault file entry refers to a report that is
\* stored: after deleteReport none is left pointing at the deleted report
C28_NoDanglingReport ==
    /\ \A c \in DOMAIN chats :
          chats[c] # NoDoc => FindReport(chats[c].relatedReportID, chats[c].userID) # NoDoc
    /\ \A u \in Users :
          vaults[u] # NoDoc =>
             \A i \in DOMAIN vaults[u].files :
                FindReport(vaults[u].files[i].reportId, u) # NoDoc

\* C29: a turn is answered 429 only when a turn of the same session completed less
\* than RateLimit seconds before; the first sendMessage on a session startChat has
\* just created is not
C29_OnlyTurnsRateLimit ==
    [][\A q \in Reqs :
         (reqs[q].pc = "limit" /\ reqs'[q].pc = "done" /\ reqs'[q].status = 429) =>
            TurnJustDone(FindChat(reqs[q].chatId, reqs[q].user))]_vars

\* C30: a chatbot subprocess that exits with code 0 having printed BOT_RESPONSE: and a
\* reply gives the turn exactly that reply, whatever the reply contains; a vault agent
\* subprocess that exits with code 0 having printed OUTPUT_JSON: and its result makes
\* the filing succeed with that result
C30_PayloadAlwaysAccepted ==
    [][/\ \A q \in Reqs, response \in BotResponses :
            (reqs[q].pc = "awaitBot" /\ BotClose(q, 0, response, TRUE)) =>
               /\ reqs'[q].status = 200
               /\ reqs'[q].reply.message = TrimText(response)
       /\ \A r \in Runs, name \in AgentNames :
            (runs[r].pc = "filing" /\ FilingClose(r, 0, name)) =>
               /\ runs'[r].fileSt = "ok"
               /\ runs'[r].patientName = name]_vars

====
